---- MODULE Spec2Model ----
(***************************************************************************)
(* Token-stepping / divergence state machine of llm-token-wheel.           *)
(*                                                                         *)
(* Two page components are modelled, selected by the variable page:        *)
(*   "wheel" : WheelPage of src/app/page.tsx (lines 874-1379), the wheel   *)
(*             with speculative regeneration (pendingRegen);               *)
(*   "home"  : Home of src/app/page.tsx (lines 449-872), the page with     *)
(*             the ghost (Diverging) state and confirm / cancel.           *)
(* A text is a sequence of one-character strings, a token is a text.       *)
(* Every action is one event handler (or one promise settlement) together  *)
(* with the React render that follows it, including the effects that the   *)
(* render runs.  A handler is enabled only while the element that calls    *)
(* it is rendered.                                                         *)
(***************************************************************************)
EXTENDS Integers, Sequences, FiniteSets, TLC

(***************************************************************************)
(* Bounds and input sets                                                   *)
(***************************************************************************)
\* speculative provider calls (generateSpeculative) started in one behaviour
MaxSpeculative == 2

\* other provider calls (generate) started in one behaviour
MaxExplicit == 3

\* tokens: " b" (leading space), "c" (bare word piece), "." (punctuation)
TA == <<" ", "b">>
TB == <<"c">>
TC == <<".">>
Tokens == {TA, TB, TC}

\* prompts the user can have typed / stored
Prompts == {<<"a">>}

\* prompts the user can type into the Home page textarea
HomePrompts == {<<"a">>, <<" ">>}

\* token sequences a successful provider response can carry
Responses == {<<>>, <<TA, TB>>}

Undefined == "undefined"

\* what generateWithLogprobs throws: a SafetyBlockError with its reason
\* (a blockReason of the provider), or another Error
BlockReasons == {"SAFETY", "OTHER"}
ProviderFailures ==
  {[kind |-> "safety", reason |-> r] : r \in BlockReasons}
    \cup {[kind |-> "generic", reason |-> Undefined]}

\* the JSON body of the error response of POST /api/generate (production
\* build: details is undefined)
POST_catch(failure) ==
  IF failure.kind = "safety"
    THEN [status |-> 400,
          error |-> "Content blocked by safety filter",
          reason |-> failure.reason,
          userMessage |-> "Your prompt was flagged by the safety filter. Please try a different prompt.",
          success |-> FALSE, tokens |-> <<>>, logprobsByPosition |-> 0]
    ELSE [status |-> 500,
          error |-> "Failed to generate text",
          reason |-> Undefined,
          userMessage |-> Undefined,
          success |-> FALSE, tokens |-> <<>>, logprobsByPosition |-> 0]

\* data.userMessage || data.error || 'Generation failed'
errorMsg(data) ==
  IF data.userMessage # Undefined THEN data.userMessage
  ELSE IF data.error # Undefined THEN data.error
  ELSE "Generation failed"

\* messages of a failed provider call: safety block (userMessage) or
\* generic failure (error)
FailureMessages == {errorMsg(POST_catch(failure)) : failure \in ProviderFailures}

NoError == "null"
NoPrompt == <<>>

VARIABLES
  page,                \* which component is mounted: "home", "wheel", "debug"
  rule,                \* which stitchToken of lib/utils.ts is linked
  prompt,              \* useState prompt
  builtText,           \* useState builtText
  selectedTokens,      \* useState selectedTokens
  appState,            \* useState appState
  error,               \* useState error
  undoStack,           \* useState undoStack
  pendingRegen,        \* useState pendingRegen: <<>> (null) or <<entry>>
  generationIdCounter, \* module-level counter
  calls,               \* provider calls in flight, with their continuations
  started,             \* history: number of provider calls started, by kind
  debug,               \* the simulation state of DebugPage (app/debug/page.tsx)
  last                 \* history: what the last step did

vars == <<page, rule, prompt, builtText, selectedTokens, appState, error,
          undoStack, pendingRegen, generationIdCounter, calls, started,
          debug, last>>

(***************************************************************************)
(* Token stitcher (src/lib/utils.ts)                                       *)
(***************************************************************************)
Front(s) == SubSeq(s, 1, Len(s) - 1)

noSpaceAfter == {" ", "\n", "\t", "(", "[", "{", "\"", "'", "-"}

punctuation == {".", ",", "!", "?", ":", ";", ")", "]", "}", "\"", "'"}

needsSpaceBefore(context, token) ==
  IF Len(token) > 0 /\ token[1] \in {" ", "\n"} THEN FALSE
  ELSE IF Len(context) = 0 THEN FALSE
  ELSE IF context[Len(context)] \in noSpaceAfter THEN FALSE
  ELSE IF Len(token) > 0 /\ token[1] \in punctuation THEN FALSE
  ELSE TRUE

stitchTokenConcat(context, token) == context \o token

stitchTokenSmart(context, token) ==
  IF needsSpaceBefore(context, token)
    THEN context \o <<" ">> \o token
    ELSE context \o token

stitchToken(context, token) ==
  IF rule = "concat" THEN stitchTokenConcat(context, token)
                     ELSE stitchTokenSmart(context, token)

\* faulty variant: the tokens are joined first and stitched as one token
RECURSIVE stitchTokens_joinedFirst(_, _)
stitchTokens_joinedFirst(tokens, initialContext) ==
  IF tokens = <<>> THEN initialContext
  ELSE stitchToken(initialContext,
         Head(tokens) \o stitchTokens_joinedFirst(Tail(tokens), <<>>))

RECURSIVE stitchTokens(_, _)
stitchTokens(tokens, initialContext) ==
  IF tokens = <<>> THEN initialContext
  ELSE stitchTokens(Tail(tokens), stitchToken(initialContext, Head(tokens)))

(***************************************************************************)
(* State shapes                                                            *)
(***************************************************************************)
Idle == [type |-> "idle"]
Loading == [type |-> "loading"]
Complete == [type |-> "complete"]
Spinning(gen, pos) == [type |-> "spinning", generation |-> gen, position |-> pos]
Ghost(gen, pos, tok) ==
  [type |-> "ghost", generation |-> gen, position |-> pos, ghostToken |-> tok]

UndoEntry(kind, gen, pos) ==
  [type |-> kind, previousGeneration |-> gen, previousPosition |-> pos]

\* from is history: kind, prompt and token of the provider call that
\* returned the generation
GenerationData(id, toks, from) == [id |-> id, tokens |-> toks, from |-> from]

NoCall == [kind |-> "none", prompt |-> <<>>, token |-> <<>>]

\* gen.tokens[position] ?? '' : the chosen token, '' past the end
chosenTokenAt(gen, pos) ==
  IF pos + 1 <= Len(gen.tokens) THEN gen.tokens[pos + 1] ELSE <<>>

\* generation?.logprobsByPosition[currentPosition] ?? null is non-null
hasLogprobs(st) ==
  st.type \in {"spinning", "ghost"} /\ st.position < Len(st.generation.tokens)

\* useState initial values of DebugPage; response is <<>> (null) or
\* <<tokens>>
DebugState ==
  [response |-> <<>>, error |-> NoError, loading |-> FALSE,
   simulationMode |-> FALSE, currentPosition |-> 0, selectedTokens |-> <<>>,
   simulationComplete |-> FALSE]

Init ==
  /\ page \in {"home", "wheel", "debug"}
  \* WheelPage imports WedgeData from lib/utils, which only the version of
  \* the file with the concatenating stitchToken exports
  /\ rule \in IF page = "wheel" THEN {"concat"} ELSE {"concat", "smart"}
  /\ prompt = IF page = "wheel" THEN NoPrompt ELSE <<"a">>
  /\ builtText = <<>>
  /\ selectedTokens = <<>>
  /\ appState = IF page = "wheel" THEN Loading ELSE Idle
  /\ error = NoError
  /\ undoStack = <<>>
  /\ pendingRegen = <<>>
  /\ generationIdCounter = 0
  /\ calls = {}
  /\ started = [speculative |-> 0, explicit |-> 0]
  /\ debug = DebugState
  /\ last = [op |-> "init"]


(***************************************************************************)
(* Provider calls                                                          *)
(***************************************************************************)
\* A call in flight.  kind names the code that awaits the fetch:
\*   "auto"     generate(prompt).then(...) of the WheelPage auto-trigger effect
\*   "fallback" await generate(newPrompt) of WheelPage.handleTokenSelect
\*   "spec"     generateSpeculative(newPrompt) of handleDivergingTokenClick
\*   "start"    await generate(prompt) of Home.handleStart
\*   "ghost"    await generate(newPrompt) of Home.handleGhostConfirm
\* token, newSelectedTokens, newBuiltText are the values the continuation
\* closed over; awaited says that handleTokenSelect awaits pending.promise.
\* confirmSel / confirmBuilt / confirmAt are history: selectedTokens,
\* builtText and the generation and position at the moment the divergence
\* was confirmed.
Call(id, kind, p, tok, nsel, nbuilt) ==
  [id |-> id, kind |-> kind, prompt |-> p, token |-> tok,
   newSelectedTokens |-> nsel, newBuiltText |-> nbuilt,
   awaited |-> FALSE, confirmSel |-> <<>>, confirmBuilt |-> <<>>,
   confirmAt |-> Loading]

Confirmed(c, sel, built) ==
  [c EXCEPT !.awaited = TRUE, !.confirmSel = sel, !.confirmBuilt = built,
            !.confirmAt = Spinning(appState.generation, appState.position)]

\* the call counters after one more call of the kind
count(n, kind) ==
  IF kind = "spec" THEN [n EXCEPT !.speculative = @ + 1]
                   ELSE [n EXCEPT !.explicit = @ + 1]

nextId(n) == n.speculative + n.explicit + 1

\* faulty variant: the counter is never incremented
incrementedGenerationId_stuck(counter) == counter

\* id: ++generationIdCounter
incrementedGenerationId(counter) == counter + 1

\* the entry of interface PendingRegeneration; call is the promise
PendingRegeneration(tok, nbuilt, nsel, callId) ==
  [token |-> tok, newBuiltText |-> nbuilt, newSelectedTokens |-> nsel,
   call |-> callId, resolved |-> FALSE,
   result |-> GenerationData(0, <<>>, NoCall), hasResult |-> FALSE, error |-> NoError]

\* history of an accept at (gen, position): the number of accepts made in a
\* row since position 0 of gen (0 when the row did not start there), and
\* the tokens selected before that row
acceptRun(gen, position) ==
  IF position = 0 THEN 1
  ELSE IF /\ last.op = "accept" /\ last.run >= 1
          /\ last.from.generation = gen
          /\ last.from.position + 1 = position
    THEN last.run + 1 ELSE 0

acceptBase(gen, position) ==
  IF position = 0 THEN selectedTokens
  ELSE IF acceptRun(gen, position) >= 1 THEN last.base ELSE <<>>

(***************************************************************************)
(* WheelPage (src/app/page.tsx 922-1379)                                   *)
(***************************************************************************)
\* the calls a step started, as (kind, prompt) pairs
startedBy(before, after) ==
  {[kind |-> c.kind, prompt |-> c.prompt] :
     c \in {a \in after : \A b \in before : b.id # a.id}}

\* <TokenWheel> is rendered
WheelPage_wheelShown ==
  /\ page = "wheel" /\ prompt # NoPrompt
  /\ appState.type = "spinning" /\ hasLogprobs(appState)

\* <BuiltTextDisplay> is rendered and shows its Undo button
WheelPage_showUndo ==
  /\ page = "wheel" /\ prompt # NoPrompt
  /\ appState.type \in {"spinning", "complete"}
  /\ Len(undoStack) > 0

\* the condition of the auto-trigger effect
WheelPage_autoTrigger(p, st, sel) ==
  p # NoPrompt /\ st.type = "loading" /\ Len(sel) = 0

\* The render that ends a WheelPage step: commits the batched state updates
\* and runs the auto-trigger effect when one of its dependencies changed.
\* generate(prompt) sets appState loading, clears error and starts a fetch.
WheelPage_render(p, st, sel, built, err, undo, pend, cs, n) ==
  LET fire == /\ WheelPage_autoTrigger(p, st, sel)
              /\ \/ p # prompt
                 \/ st.type # appState.type
                 \/ Len(sel) # Len(selectedTokens)
      c == Call(nextId(n), "auto", p, <<>>, <<>>, <<>>)
  IN /\ n.speculative <= MaxSpeculative
     /\ n.explicit + (IF fire THEN 1 ELSE 0) <= MaxExplicit
     /\ prompt' = p
     /\ appState' = st
     /\ selectedTokens' = sel
     /\ builtText' = built
     /\ undoStack' = undo
     /\ pendingRegen' = pend
     /\ error' = IF fire THEN NoError ELSE err
     /\ calls' = IF fire THEN cs \cup {c} ELSE cs
     /\ started' = IF fire THEN count(n, "auto") ELSE n

\* mount effect: load the prompt from sessionStorage
WheelPage_mount ==
  /\ page = "wheel" /\ prompt = NoPrompt
  /\ \E savedPrompt \in Prompts :
       WheelPage_render(savedPrompt, appState, selectedTokens, savedPrompt,
                        error, undoStack, pendingRegen, calls, started)
  /\ last' = [op |-> "mount"]
  /\ UNCHANGED <<debug, page, rule, generationIdCounter>>

\* onDivergingTokenClick
WheelPage_handleDivergingTokenClick(token) ==
  /\ WheelPage_wheelShown
  /\ token # chosenTokenAt(appState.generation, appState.position)
  /\ LET newSelectedTokens == Append(selectedTokens, token)
         newBuiltText == stitchToken(builtText, token)
         c == Call(nextId(started), "spec", newBuiltText, token,
                   newSelectedTokens, newBuiltText)
         pending == PendingRegeneration(token, newBuiltText,
                                        newSelectedTokens, c.id)
     IN WheelPage_render(prompt, appState, selectedTokens, builtText, error,
                         undoStack, <<pending>>, calls \cup {c},
                         count(started, "spec"))
  /\ last' = [op |-> "notify", token |-> token,
              superseded |-> pendingRegen # <<>>
                             /\ pendingRegen[1].token # token]
  /\ UNCHANGED <<debug, page, rule, generationIdCounter>>

\* if (pending && pending.token === token && pending.resolved)
WheelPage_speculationFinished(token) ==
  /\ pendingRegen # <<>>
  /\ pendingRegen[1].token = token
  /\ pendingRegen[1].resolved

\* else if (pending && pending.token === token && !pending.resolved)
WheelPage_speculationInProgress(token) ==
  /\ pendingRegen # <<>>
  /\ pendingRegen[1].token = token
  /\ ~pendingRegen[1].resolved

\* faulty variant: the entry records the position after the step
WheelPage_pushUndo_nextPosition(kind) ==
  Append(undoStack,
         UndoEntry(kind, appState.generation, appState.position + 1))

\* setUndoStack((prev) => [...prev, {type, previousGeneration, previousPosition}])
WheelPage_pushUndo(kind) ==
  Append(undoStack, UndoEntry(kind, appState.generation, appState.position))

\* faulty variant: the cached result is shown only after a loading state
WheelPage_adoptResult_viaLoading(result) == Loading

\* setAppState({type: 'spinning', generation: pending.result, position: 0})
WheelPage_adoptResult(result) == Spinning(result, 0)

\* faulty variant: the end is detected one token early
WheelPage_afterAccept_early(gen, position) ==
  IF position + 2 >= Len(gen.tokens)
    THEN Complete ELSE Spinning(gen, position + 1)

\* if (position + 1 >= gen.tokens.length) complete, else the next position
WheelPage_afterAccept(gen, position) ==
  IF position + 1 >= Len(gen.tokens)
    THEN Complete ELSE Spinning(gen, position + 1)

\* onTokenSelect
WheelPage_handleTokenSelect(token) ==
  /\ WheelPage_wheelShown
  /\ LET gen == appState.generation
         position == appState.position
         chosenToken == chosenTokenAt(gen, position)
         newSelectedTokens == Append(selectedTokens, token)
         newBuiltText == stitchToken(builtText, token)
         pending == pendingRegen[1]
         confirm(path) ==
           [op |-> "confirm", token |-> token, path |-> path,
            sel |-> selectedTokens, built |-> builtText,
            at |-> appState,
            result |-> IF pendingRegen # <<>> THEN pending.result
                       ELSE GenerationData(0, <<>>, NoCall),
            started |-> startedBy(calls, calls')]
     IN IF token = chosenToken THEN
          \* token matches AI choice
          /\ WheelPage_render(prompt, WheelPage_afterAccept(gen, position),
               newSelectedTokens, newBuiltText, error,
               WheelPage_pushUndo("normal"), pendingRegen, calls, started)
          /\ last' = [op |-> "accept", token |-> token, from |-> appState,
                      sel |-> selectedTokens, built |-> builtText,
                      run |-> acceptRun(gen, position),
                      base |-> acceptBase(gen, position)]
        ELSE IF WheelPage_speculationFinished(token) THEN
          \* speculative call finished
          /\ IF pending.error # NoError THEN
               WheelPage_render(prompt, Loading, selectedTokens, builtText,
                 pending.error, WheelPage_pushUndo("ghost"), <<>>, calls,
                 started)
             ELSE IF pending.hasResult THEN
               WheelPage_render(prompt, WheelPage_adoptResult(pending.result),
                 pending.newSelectedTokens, pending.newBuiltText, error,
                 WheelPage_pushUndo("ghost"), <<>>, calls, started)
             ELSE
               WheelPage_render(prompt, appState, selectedTokens, builtText,
                 error, WheelPage_pushUndo("ghost"), <<>>, calls, started)
          /\ last' = confirm(IF pending.error # NoError THEN "resolvedError"
                             ELSE IF pending.hasResult THEN "resolved"
                             ELSE "resolvedEmpty")
        ELSE IF WheelPage_speculationInProgress(token) THEN
          \* speculative call still in progress: await pending.promise
          /\ WheelPage_render(prompt, Loading, selectedTokens, builtText,
               error, WheelPage_pushUndo("ghost"), <<>>,
               {IF c.id = pending.call
                  THEN Confirmed([c EXCEPT
                         !.newSelectedTokens = pending.newSelectedTokens,
                         !.newBuiltText = pending.newBuiltText],
                         selectedTokens, builtText)
                  ELSE c : c \in calls},
               started)
          /\ last' = confirm("pending")
        ELSE
          \* fallback: generate(newPrompt)
          /\ LET c == Confirmed(Call(nextId(started), "fallback",
                                     newBuiltText, token, newSelectedTokens,
                                     newBuiltText),
                                selectedTokens, builtText)
             IN WheelPage_render(prompt, Loading, selectedTokens, builtText,
                  NoError, WheelPage_pushUndo("ghost"), <<>>,
                  calls \cup {c}, count(started, "fallback"))
          /\ last' = confirm("fallback")
  /\ UNCHANGED <<debug, page, rule, generationIdCounter>>

\* faulty variant: handleUndo leaves builtText as it was
WheelPage_undoBuiltText_stale(newSelectedTokens, currentPrompt) == builtText

\* newBuiltText of handleUndo
WheelPage_undoBuiltText(newSelectedTokens, currentPrompt) ==
  IF Len(newSelectedTokens) > 0
    THEN stitchTokens(newSelectedTokens, currentPrompt)
    ELSE currentPrompt

\* onUndo
WheelPage_handleUndo ==
  /\ WheelPage_showUndo
  /\ IF Len(undoStack) = 0 \/ Len(selectedTokens) = 0 THEN
       /\ last' = [op |-> "undoIgnored"]
       /\ UNCHANGED <<prompt, builtText, selectedTokens, appState, error,
                      undoStack, pendingRegen, calls, started>>
     ELSE
       LET entry == undoStack[Len(undoStack)]
           newUndoStack == Front(undoStack)
           newSelectedTokens == Front(selectedTokens)
           newBuiltText == WheelPage_undoBuiltText(newSelectedTokens, prompt)
       IN /\ WheelPage_render(prompt,
               Spinning(entry.previousGeneration, entry.previousPosition),
               newSelectedTokens, newBuiltText, error, newUndoStack, <<>>,
               calls, started)
          /\ last' = [op |-> "undo", after |-> last.op,
                      started |-> startedBy(calls, calls')]
  /\ UNCHANGED <<debug, page, rule, generationIdCounter>>

\* setPendingRegen((current) => ...) of the promise's then / catch
WheelPage_trackSettlement(c, ok, gen, msg) ==
  IF c.kind = "spec" /\ pendingRegen # <<>> /\ pendingRegen[1].token = c.token
    THEN IF ok
      THEN <<[pendingRegen[1] EXCEPT !.resolved = TRUE, !.result = gen,
               !.hasResult = TRUE, !.error = NoError]>>
      ELSE <<[pendingRegen[1] EXCEPT !.resolved = TRUE,
               !.result = GenerationData(0, <<>>, NoCall),
               !.hasResult = FALSE, !.error = msg]>>
    ELSE pendingRegen

\* faulty variant: generateSpeculative reports its failure like generate
WheelPage_setsError_always(c) == TRUE

\* the failure of c reaches setError: generate's catch, or the catch around
\* await pending.promise; generateSpeculative itself only rethrows
WheelPage_setsError(c) ==
  \/ c.kind \in {"auto", "fallback"}
  \/ c.kind = "spec" /\ c.awaited

\* A fetch of the WheelPage settles: response.ok with tokens toks, or a
\* failure with message msg.  Runs the continuations of the promise.
WheelPage_settle(c, ok, toks, msg) ==
  /\ page = "wheel" /\ c \in calls
  /\ LET gen == GenerationData(incrementedGenerationId(generationIdCounter), toks,
                  [kind |-> c.kind, prompt |-> c.prompt, token |-> c.token])
         adopts == ok /\ (c.kind = "fallback" \/ (c.kind = "spec" /\ c.awaited))
         fails == ~ok /\ WheelPage_setsError(c)
     IN /\ WheelPage_render(prompt,
             IF adopts \/ (ok /\ c.kind = "auto")
               THEN Spinning(gen, 0) ELSE appState,
             IF adopts THEN c.newSelectedTokens ELSE selectedTokens,
             IF adopts THEN c.newBuiltText ELSE builtText,
             IF fails THEN msg ELSE error,
             undoStack, WheelPage_trackSettlement(c, ok, gen, msg),
             calls \ {c}, started)
        /\ last' = [op |-> "settle", kind |-> c.kind, ok |-> ok,
                    awaited |-> c.awaited, token |-> c.token,
                    sel |-> c.confirmSel, built |-> c.confirmBuilt,
                    at |-> c.confirmAt,
                    started |-> startedBy(calls, calls')]
  /\ generationIdCounter' = IF ok THEN incrementedGenerationId(generationIdCounter)
                                  ELSE generationIdCounter
  /\ UNCHANGED <<debug, page, rule>>

\* a call whose component instance was unmounted: the fetch still settles,
\* its setState calls reach no mounted component
Orphaned(c) ==
  Call(c.id, IF c.kind \in {"spec", "orphanSpec"} THEN "orphanSpec"
                                                  ELSE "orphan",
       <<>>, <<>>, <<>>, <<>>)

\* router.push('/'): the WheelPage instance is unmounted and the landing
\* page is shown; a later visit mounts a new instance with the useState
\* initial values.  The landing page lets the user edit the prompt.
WheelPage_leave ==
  /\ prompt' = NoPrompt
  /\ builtText' = <<>>
  /\ selectedTokens' = <<>>
  /\ appState' = Loading
  /\ error' = NoError
  /\ undoStack' = <<>>
  /\ pendingRegen' = <<>>
  /\ calls' = {Orphaned(c) : c \in calls}
  /\ UNCHANGED <<debug, page, rule, generationIdCounter, started>>

\* onReset of <BuiltTextDisplay> and <CompletionBanner>
WheelPage_handleReset ==
  /\ page = "wheel" /\ prompt # NoPrompt
  /\ appState.type \in {"spinning", "complete"}
  /\ WheelPage_leave
  /\ last' = [op |-> "reset"]

\* onContinue of <CompletionBanner>
WheelPage_handleContinue ==
  /\ page = "wheel" /\ prompt # NoPrompt
  /\ appState.type = "complete"
  /\ WheelPage_leave
  /\ last' = [op |-> "continue"]

WheelPage_Next ==
  \/ WheelPage_mount
  \/ WheelPage_handleReset
  \/ WheelPage_handleContinue
  \/ \E token \in Tokens : WheelPage_handleDivergingTokenClick(token)
  \/ \E token \in Tokens : WheelPage_handleTokenSelect(token)
  \/ WheelPage_handleUndo
  \/ \E c \in calls :
       \/ \E toks \in Responses : WheelPage_settle(c, TRUE, toks, NoError)
       \/ \E failure \in ProviderFailures :
            WheelPage_settle(c, FALSE, <<>>, errorMsg(POST_catch(failure)))

(***************************************************************************)
(* Home (src/app/page.tsx 488-872)                                         *)
(***************************************************************************)
whitespace == {" ", "\n", "\t"}

\* !prompt.trim()
isBlank(text) == \A i \in 1..Len(text) : text[i] \in whitespace

\* <TokenWheel> is rendered
Home_wheelShown ==
  page = "home" /\ appState.type = "spinning" /\ hasLogprobs(appState)

\* the controls block (Undo / Start over) is rendered
Home_controlsShown ==
  page = "home" /\ appState.type \in {"spinning", "ghost", "complete"}

Home_showUndo == Home_controlsShown /\ Len(undoStack) > 0

\* onPromptChange of <PromptInput>, rendered in idle only
Home_setPrompt(p) ==
  /\ page = "home" /\ appState.type = "idle"
  /\ p # prompt
  /\ prompt' = p
  /\ last' = [op |-> "setPrompt"]
  /\ UNCHANGED <<debug, page, rule, builtText, selectedTokens, appState, error,
                 undoStack, pendingRegen, generationIdCounter, calls, started>>

\* onStart of <PromptInput>: the button is disabled for a blank prompt
Home_handleStart ==
  /\ page = "home" /\ appState.type = "idle"
  /\ ~isBlank(prompt)
  /\ started.explicit < MaxExplicit
  /\ calls' = calls \cup {Call(nextId(started), "start", prompt, <<>>, <<>>,
                                prompt)}
  /\ started' = count(started, "start")
  /\ appState' = Loading
  /\ error' = NoError
  /\ last' = [op |-> "start", started |-> startedBy(calls, calls')]
  /\ UNCHANGED <<debug, page, rule, prompt, builtText, selectedTokens, undoStack,
                 pendingRegen, generationIdCounter>>

\* onTokenSelect
Home_handleTokenSelect(token) ==
  /\ Home_wheelShown
  /\ LET gen == appState.generation
         position == appState.position
         chosenToken == chosenTokenAt(gen, position)
     IN IF token = chosenToken THEN
          \* spin mode: accept the AI's choice
          /\ undoStack' = Append(undoStack, UndoEntry("normal", gen, position))
          /\ selectedTokens' = Append(selectedTokens, token)
          /\ builtText' = stitchToken(builtText, token)
          /\ appState' = IF position + 1 >= Len(gen.tokens)
                           THEN Complete ELSE Spinning(gen, position + 1)
          /\ last' = [op |-> "accept", token |-> token, from |-> appState,
                      sel |-> selectedTokens, built |-> builtText,
                      run |-> acceptRun(gen, position),
                      base |-> acceptBase(gen, position)]
        ELSE
          \* manual selection: show ghost mode
          /\ appState' = Ghost(gen, position, token)
          /\ last' = [op |-> "select", token |-> token]
          /\ UNCHANGED <<undoStack, selectedTokens, builtText>>
  /\ UNCHANGED <<debug, page, rule, prompt, error, pendingRegen,
                 generationIdCounter, calls, started>>

\* onConfirm of <GhostConfirmation>
Home_handleGhostConfirm ==
  /\ page = "home" /\ appState.type = "ghost"
  /\ started.explicit < MaxExplicit
  /\ LET ghostToken == appState.ghostToken
         newSelectedTokens == Append(selectedTokens, ghostToken)
         newBuiltText == stitchToken(builtText, ghostToken)
         c == Confirmed(Call(nextId(started), "ghost", newBuiltText,
                             ghostToken, newSelectedTokens, newBuiltText),
                        selectedTokens, builtText)
     IN /\ undoStack' = Append(undoStack,
             UndoEntry("ghost", appState.generation, appState.position))
        /\ calls' = calls \cup {c}
        /\ started' = count(started, "ghost")
        /\ last' = [op |-> "confirm", token |-> ghostToken,
                    path |-> "fallback", sel |-> selectedTokens,
                    built |-> builtText,
                    at |-> Spinning(appState.generation, appState.position),
                    result |-> GenerationData(0, <<>>, NoCall),
                    started |-> startedBy(calls, calls')]
  /\ appState' = Loading
  /\ error' = NoError
  /\ UNCHANGED <<debug, page, rule, prompt, builtText, selectedTokens, pendingRegen,
                 generationIdCounter>>

\* faulty variant: cancelling moves past the position
Home_ghostCancelled_nextPosition ==
  Spinning(appState.generation, appState.position + 1)

\* setAppState({type: "spinning", generation: gen, position})
Home_ghostCancelled == Spinning(appState.generation, appState.position)

\* onCancel of <GhostConfirmation>
Home_handleGhostCancel ==
  /\ page = "home" /\ appState.type = "ghost"
  /\ appState' = Home_ghostCancelled
  /\ last' = [op |-> "cancel"]
  /\ UNCHANGED <<debug, page, rule, prompt, builtText, selectedTokens, error,
                 undoStack, pendingRegen, generationIdCounter, calls, started>>

\* newBuiltText of handleUndo
Home_undoBuiltText(newSelectedTokens) ==
  IF Len(newSelectedTokens) > 0
    THEN stitchTokens(newSelectedTokens, prompt)
    ELSE prompt

\* onClick of the Undo button
Home_handleUndo ==
  /\ Home_showUndo
  /\ IF appState.type = "ghost" THEN
       \* in ghost mode, just cancel it
       /\ appState' = Spinning(appState.generation, appState.position)
       /\ last' = [op |-> "undoGhost"]
       /\ UNCHANGED <<undoStack, selectedTokens, builtText>>
     ELSE IF Len(undoStack) = 0 \/ Len(selectedTokens) = 0 THEN
       /\ last' = [op |-> "undoIgnored"]
       /\ UNCHANGED <<appState, undoStack, selectedTokens, builtText>>
     ELSE
       LET entry == undoStack[Len(undoStack)]
           newSelectedTokens == Front(selectedTokens)
       IN /\ undoStack' = Front(undoStack)
          /\ selectedTokens' = newSelectedTokens
          /\ builtText' = Home_undoBuiltText(newSelectedTokens)
          /\ appState' = Spinning(entry.previousGeneration,
                                  entry.previousPosition)
          /\ last' = [op |-> "undo", after |-> last.op]
  /\ UNCHANGED <<debug, page, rule, prompt, error, pendingRegen,
                 generationIdCounter, calls, started>>

\* onClick of "Start over", onReset of <CompletionBanner>
\* faulty variant: the undo stack survives the reset
Home_handleReset_keepsUndoStack ==
  /\ Home_controlsShown
  /\ builtText' = <<>>
  /\ selectedTokens' = <<>>
  /\ appState' = Idle
  /\ error' = NoError
  /\ last' = [op |-> "reset"]
  /\ UNCHANGED <<debug, page, rule, prompt, pendingRegen, generationIdCounter,
                 calls, started, undoStack>>

\* onClick of "Start over with a new prompt"
Home_handleReset ==
  /\ Home_controlsShown
  /\ builtText' = <<>>
  /\ selectedTokens' = <<>>
  /\ appState' = Idle
  /\ error' = NoError
  /\ undoStack' = <<>>
  /\ last' = [op |-> "reset"]
  /\ UNCHANGED <<debug, page, rule, prompt, pendingRegen, generationIdCounter,
                 calls, started>>

\* onContinue of <CompletionBanner>: setPrompt(displayText); handleReset()
Home_continue ==
  /\ page = "home" /\ appState.type = "complete"
  /\ prompt' = builtText
  /\ builtText' = <<>>
  /\ selectedTokens' = <<>>
  /\ appState' = Idle
  /\ error' = NoError
  /\ undoStack' = <<>>
  /\ last' = [op |-> "continue"]
  /\ UNCHANGED <<debug, page, rule, pendingRegen, generationIdCounter, calls,
                 started>>

\* A fetch of the Home page settles and generate() returns to its caller
Home_settle(c, ok, toks, msg) ==
  /\ page = "home" /\ c \in calls
  /\ LET gen == GenerationData(incrementedGenerationId(generationIdCounter), toks,
                  [kind |-> c.kind, prompt |-> c.prompt, token |-> c.token])
     IN IF ok THEN
          /\ appState' = Spinning(gen, 0)
          /\ selectedTokens' = c.newSelectedTokens
          /\ builtText' = c.newBuiltText
          /\ undoStack' = IF c.kind = "start" THEN <<>> ELSE undoStack
          /\ generationIdCounter' = incrementedGenerationId(generationIdCounter)
          /\ UNCHANGED error
        ELSE
          /\ error' = msg
          /\ appState' = Idle
          /\ UNCHANGED <<selectedTokens, builtText, undoStack,
                         generationIdCounter>>
  /\ calls' = calls \ {c}
  /\ last' = [op |-> "settle", kind |-> c.kind, ok |-> ok,
              awaited |-> c.awaited, token |-> c.token,
              sel |-> c.confirmSel, built |-> c.confirmBuilt,
                    at |-> c.confirmAt,
              started |-> {}]
  /\ UNCHANGED <<debug, page, rule, prompt, pendingRegen, started>>

Home_Next ==
  \/ \E p \in HomePrompts : Home_setPrompt(p)
  \/ Home_handleStart
  \/ \E token \in Tokens : Home_handleTokenSelect(token)
  \/ Home_handleGhostConfirm
  \/ Home_handleGhostCancel
  \/ Home_handleUndo
  \/ Home_handleReset
  \/ Home_continue
  \/ \E c \in calls :
       \/ \E toks \in Responses : Home_settle(c, TRUE, toks, NoError)
       \/ \E failure \in ProviderFailures :
            Home_settle(c, FALSE, <<>>, errorMsg(POST_catch(failure)))

(***************************************************************************)
(* DebugPage simulation (src/app/debug/page.tsx 30-208)                    *)
(***************************************************************************)
\* <SimulationPanel> is rendered
DebugPage_panelShown ==
  page = "debug" /\ debug.response # <<>> /\ debug.simulationMode

\* response.tokens[currentPosition]; <<>> stands for undefined
DebugPage_currentToken ==
  IF debug.currentPosition + 1 <= Len(debug.response[1])
    THEN debug.response[1][debug.currentPosition + 1] ELSE <<>>

\* getCurrentCandidates() is non-empty
DebugPage_hasCandidates ==
  debug.currentPosition < Len(debug.response[1])

\* newPrompt of selectAlternativeToken: prompt + newSelectedTokens.join("")
RECURSIVE join(_)
join(tokens) ==
  IF tokens = <<>> THEN <<>> ELSE Head(tokens) \o join(Tail(tokens))

\* onGenerate of <GenerationForm>
DebugPage_handleGenerate ==
  /\ page = "debug" /\ ~debug.loading /\ ~isBlank(prompt)
  /\ started.explicit < MaxExplicit
  /\ debug' = [debug EXCEPT !.loading = TRUE, !.error = NoError]
  /\ calls' = calls \cup
       {Call(nextId(started), "debugGenerate", prompt, <<>>, <<>>, <<>>)}
  /\ started' = count(started, "debugGenerate")
  /\ last' = [op |-> "debugGenerate"]
  /\ UNCHANGED <<page, rule, prompt, builtText, selectedTokens, appState,
                 error, undoStack, pendingRegen, generationIdCounter>>

\* Start Simulation button, or onRestart of the completed panel
DebugPage_startSimulation ==
  /\ page = "debug" /\ debug.response # <<>>
  /\ ~debug.simulationMode \/ debug.simulationComplete
  /\ debug' = [debug EXCEPT !.simulationMode = TRUE, !.currentPosition = 0,
                            !.selectedTokens = <<>>,
                            !.simulationComplete = FALSE]
  /\ last' = [op |-> "debugStart"]
  /\ UNCHANGED <<page, rule, prompt, builtText, selectedTokens, appState,
                 error, undoStack, pendingRegen, generationIdCounter, calls,
                 started>>

\* onExit
DebugPage_exitSimulation ==
  /\ DebugPage_panelShown
  /\ debug' = [debug EXCEPT !.simulationMode = FALSE, !.currentPosition = 0,
                            !.selectedTokens = <<>>,
                            !.simulationComplete = FALSE]
  /\ last' = [op |-> "debugExit"]
  /\ UNCHANGED <<page, rule, prompt, builtText, selectedTokens, appState,
                 error, undoStack, pendingRegen, generationIdCounter, calls,
                 started>>

\* the state acceptCurrentToken() leaves
DebugPage_accepted ==
  LET newSelectedTokens ==
        Append(debug.selectedTokens, DebugPage_currentToken)
  IN IF debug.currentPosition + 1 >= Len(debug.response[1])
       THEN [debug EXCEPT !.selectedTokens = newSelectedTokens,
                          !.simulationComplete = TRUE]
       ELSE [debug EXCEPT !.selectedTokens = newSelectedTokens,
                          !.currentPosition = @ + 1]

\* onAccept
DebugPage_acceptCurrentToken ==
  /\ DebugPage_panelShown /\ ~debug.simulationComplete /\ ~debug.loading
  /\ debug' = DebugPage_accepted
  /\ last' = [op |-> "debugAccept"]
  /\ UNCHANGED <<page, rule, prompt, builtText, selectedTokens, appState,
                 error, undoStack, pendingRegen, generationIdCounter, calls,
                 started>>

\* faulty variant: every selected candidate is regenerated from
DebugPage_isOriginal_never(token) == FALSE

\* token === response.tokens[currentPosition]
DebugPage_isOriginal(token) == token = DebugPage_currentToken

\* onSelectAlternative
DebugPage_selectAlternativeToken(token) ==
  /\ DebugPage_panelShown /\ ~debug.simulationComplete /\ ~debug.loading
  /\ DebugPage_hasCandidates
  /\ LET newSelectedTokens == Append(debug.selectedTokens, token)
         newPrompt == prompt \o join(newSelectedTokens)
     IN IF DebugPage_isOriginal(token) THEN
          /\ debug' = DebugPage_accepted
          /\ UNCHANGED <<calls, started>>
        ELSE
          /\ started.explicit < MaxExplicit
          /\ debug' = [debug EXCEPT !.loading = TRUE, !.error = NoError]
          /\ calls' = calls \cup
               {Call(nextId(started), "debugRegen", newPrompt, token,
                     newSelectedTokens, <<>>)}
          /\ started' = count(started, "debugRegen")
  /\ last' = [op |-> "debugSelect", token |-> token,
              original |-> token = DebugPage_currentToken]
  /\ UNCHANGED <<page, rule, prompt, builtText, selectedTokens, appState,
                 error, undoStack, pendingRegen, generationIdCounter>>

\* The fetch of handleGenerate or selectAlternativeToken settles; finally
\* setLoading(false)
DebugPage_settle(c, ok, toks, msg) ==
  /\ page = "debug" /\ c \in calls
  /\ debug' =
       IF c.kind = "debugGenerate" THEN
         IF ok THEN [debug EXCEPT !.response = <<toks>>, !.loading = FALSE]
               ELSE [debug EXCEPT !.response = <<>>, !.error = msg,
                                  !.loading = FALSE]
       ELSE
         IF ok THEN [debug EXCEPT
                       !.response = <<c.newSelectedTokens \o toks>>,
                       !.selectedTokens = c.newSelectedTokens,
                       !.currentPosition = Len(c.newSelectedTokens),
                       !.loading = FALSE]
               ELSE [debug EXCEPT !.error = msg, !.loading = FALSE]
  /\ calls' = calls \ {c}
  /\ last' = [op |-> "debugSettle", kind |-> c.kind, ok |-> ok]
  /\ UNCHANGED <<page, rule, prompt, builtText, selectedTokens, appState,
                 error, undoStack, pendingRegen, generationIdCounter,
                 started>>

DebugPage_Next ==
  \/ DebugPage_handleGenerate
  \/ DebugPage_startSimulation
  \/ DebugPage_exitSimulation
  \/ DebugPage_acceptCurrentToken
  \/ \E token \in Tokens : DebugPage_selectAlternativeToken(token)
  \/ \E c \in calls :
       \/ \E toks \in Responses : DebugPage_settle(c, TRUE, toks, NoError)
       \/ \E failure \in ProviderFailures :
            DebugPage_settle(c, FALSE, <<>>, errorMsg(POST_catch(failure)))

Next == WheelPage_Next \/ Home_Next \/ DebugPage_Next

Spec == Init /\ [][Next]_vars

(***************************************************************************)
(* The stitcher alone: token sequences built one token at a time           *)
(***************************************************************************)
\* longest token sequence stitched
MaxStitched == 3

\* tokens: leading space, bare, punctuation, opening bracket, leading
\* newline, empty
StitchedTokens == Tokens \cup {<<"(", "d">>, <<"\n", "e">>, <<>>}

\* prefixes: empty, bare, ending in a space, ending in an opening bracket
StitchedPrefixes == {<<>>, <<"a">>, <<"a", " ">>, <<"a", "(">>}

StitchInit ==
  /\ page = "stitch"
  /\ rule \in {"concat", "smart"}
  /\ prompt \in StitchedPrefixes
  /\ builtText = prompt
  /\ selectedTokens = <<>>
  /\ appState = Idle
  /\ error = NoError
  /\ undoStack = <<>>
  /\ pendingRegen = <<>>
  /\ generationIdCounter = 0
  /\ calls = {}
  /\ started = [speculative |-> 0, explicit |-> 0]
  /\ debug = DebugState
  /\ last = [op |-> "init"]

\* one more token: the text is stitched from scratch, as handleUndo does
StitchAppend(token) ==
  /\ Len(selectedTokens) < MaxStitched
  /\ selectedTokens' = Append(selectedTokens, token)
  /\ builtText' = stitchTokens(selectedTokens', prompt)
  /\ last' = [op |-> "stitch"]
  /\ UNCHANGED <<page, rule, prompt, appState, error, undoStack, pendingRegen,
                 generationIdCounter, calls, started, debug>>

StitchNext == \E token \in StitchedTokens : StitchAppend(token)

StitchSpec == StitchInit /\ [][StitchNext]_vars

(***************************************************************************)
(* POST /api/generate (src/app/api/generate/route.ts, src/lib/gemini.ts)   *)
(***************************************************************************)
\* requests handled in one behaviour
MaxRequests == 3

\* if (prompt.length > 1000)
MaxPromptLength == 1000

\* the prompt field of the JSON body: its typeof, its truthiness and, for a
\* string, its length
JSValue(type, truthy, length) ==
  [type |-> type, truthy |-> truthy, length |-> length]

RequestPrompts ==
  {JSValue("undefined", FALSE, 0), JSValue("number", FALSE, 0),
   JSValue("number", TRUE, 0), JSValue("object", TRUE, 0)}
    \cup {JSValue("string", n > 0, n) :
            n \in {0, 1, MaxPromptLength, MaxPromptLength + 1}}

\* the request: a body that is not JSON ("unparsable"), the JSON value null,
\* or a JSON object with or without a prompt field
Requests ==
  {[body |-> b, prompt |-> JSValue("undefined", FALSE, 0)] :
     b \in {"unparsable", "null"}}
    \cup {[body |-> "object", prompt |-> p] : p \in RequestPrompts}

\* const {prompt, ...} = await request.json() throws: json() rejects, or
\* null is destructured
POST_bodyThrows(request) == request.body # "object"

\* what model.generateContent gives: it throws, or returns a response with
\* promptFeedback.blockReason, candidates (their number), the first
\* candidate's finishReason, its logprobsResult (present or not) and the
\* tokens of chosenCandidates
GeminiResponses ==
  [thrown : BOOLEAN, blockReason : {Undefined} \cup BlockReasons,
   candidates : {0, 1}, finishReason : {"STOP", "SAFETY"},
   logprobsResult : BOOLEAN, tokens : Responses]

\* generateWithLogprobs: the error it throws ("none" when it returns)
generateWithLogprobs_error(response) ==
  IF response.thrown THEN [kind |-> "generic", reason |-> Undefined]
  ELSE IF response.blockReason # Undefined
    THEN [kind |-> "safety", reason |-> response.blockReason]
  ELSE IF response.candidates = 0
    THEN [kind |-> "generic", reason |-> Undefined]
  ELSE IF response.finishReason = "SAFETY"
    THEN [kind |-> "safety", reason |-> "Generation stopped by safety filter"]
  ELSE IF ~response.logprobsResult
    THEN [kind |-> "generic", reason |-> Undefined]
  ELSE [kind |-> "none", reason |-> Undefined]

\* if (!prompt || typeof prompt !== 'string')
POST_promptMissing(requestPrompt) ==
  ~requestPrompt.truthy \/ requestPrompt.type # "string"

\* if (prompt.length > 1000)
POST_promptTooLong(requestPrompt) == requestPrompt.length > MaxPromptLength

POST_badRequest(message) ==
  [status |-> 400, error |-> message, reason |-> Undefined,
   userMessage |-> Undefined, success |-> FALSE, tokens |-> <<>>,
   logprobsByPosition |-> 0]

\* the model is called: the request passed both validations
POST_callsModel(request) ==
  /\ ~POST_bodyThrows(request)
  /\ ~POST_promptMissing(request.prompt)
  /\ ~POST_promptTooLong(request.prompt)

\* the response of POST for the request, the model answering with response
POST(request, response) ==
  IF POST_bodyThrows(request)
    THEN POST_catch([kind |-> "generic", reason |-> Undefined])
  ELSE IF POST_promptMissing(request.prompt)
    THEN POST_badRequest("Prompt is required and must be a string")
  ELSE IF POST_promptTooLong(request.prompt)
    THEN POST_badRequest("Prompt too long (max 1000 characters)")
  ELSE IF generateWithLogprobs_error(response).kind # "none"
    THEN POST_catch(generateWithLogprobs_error(response))
  ELSE [status |-> 200, error |-> Undefined, reason |-> Undefined,
        userMessage |-> Undefined, success |-> TRUE,
        tokens |-> response.tokens,
        logprobsByPosition |-> Len(response.tokens)]

RouteInit ==
  /\ page = "route"
  /\ rule = "concat"
  /\ prompt = NoPrompt
  /\ builtText = <<>>
  /\ selectedTokens = <<>>
  /\ appState = Idle
  /\ error = NoError
  /\ undoStack = <<>>
  /\ pendingRegen = <<>>
  /\ generationIdCounter = 0
  /\ calls = {}
  /\ started = [speculative |-> 0, explicit |-> 0]
  /\ debug = DebugState
  /\ last = [op |-> "init"]

\* One request is handled.  started.explicit counts the requests, calls
\* holds the invocations of the model, by request number.
RouteHandle(request, response) ==
  /\ started.explicit < MaxRequests
  /\ started' = [started EXCEPT !.explicit = @ + 1]
  /\ calls' = IF POST_callsModel(request)
                THEN calls \cup {[request |-> started.explicit + 1,
                                  body |-> request.body,
                                  prompt |-> request.prompt]}
                ELSE calls
  /\ last' = [op |-> "POST", body |-> request.body,
              prompt |-> request.prompt,
              gemini |-> IF POST_callsModel(request)
                           THEN <<response>> ELSE <<>>,
              response |-> POST(request, response)]
  /\ UNCHANGED <<page, rule, prompt, builtText, selectedTokens, appState,
                 error, undoStack, pendingRegen, generationIdCounter, debug>>

RouteNext ==
  \E request \in Requests, response \in GeminiResponses :
    RouteHandle(request, response)

RouteSpec == RouteInit /\ [][RouteNext]_vars

(***************************************************************************)
(* Properties                                                              *)
(***************************************************************************)
\* the session variants of the two pages
Stepping == appState.type = "spinning"
Diverging == appState.type = "ghost"
Completed == appState.type = "complete"

\* the last step completed a confirmation of a divergence successfully:
\* a resolved speculation was adopted, or the awaited call returned
ConfirmationSucceeded ==
  \/ last.op = "confirm" /\ last.path = "resolved"
  \/ last.op = "settle" /\ last.ok /\ last.awaited

\* C1: in every Stepping or Complete state (and while a divergence is shown) builtText equals the
\* prompt stitched with the selected tokens.
C1_BuiltTextIsStitchedTokens ==
  (Stepping \/ Diverging \/ Completed)
    => builtText = stitchTokens(selectedTokens, prompt)

\* C1 witness: Stepping after an undo that left tokens, under smart spacing
C1_Witness ==
  /\ Stepping /\ last.op = "undo" /\ Len(selectedTokens) >= 1
  /\ rule = "smart" /\ Len(builtText) > Len(prompt) + 2

\* C2: a successful confirmation of a divergence with token d ends in
\* Stepping at position 0 with selectedTokens equal to the tokens held at the
\* moment of confirmation with d appended, and builtText equal to the text
\* held at confirmation stitched with d.
C2_ConfirmAppendsToken ==
  ConfirmationSucceeded =>
    /\ Stepping /\ appState.position = 0
    /\ selectedTokens = Append(last.sel, last.token)
    /\ builtText = stitchToken(last.built, last.token)

\* the settlement of the speculative call c while the tracked entry is for
\* another token
SupersededSettles(c) ==
  /\ last'.op = "settle"
  /\ c \in calls /\ c \notin calls' /\ c.kind = "spec"
  /\ pendingRegen # <<>> /\ pendingRegen[1].token # c.token

\* C3: the settlement of a speculative call for X, after the speculation for
\* another token Y was started, changes no session state and not Y's entry;
\* a resolved entry adopted on confirming Y holds a generation returned by a
\* speculative call for Y.
C3_SupersededSpeculationIgnored ==
  [][/\ \A c \in calls : SupersededSettles(c) =>
          UNCHANGED <<appState, selectedTokens, builtText, undoStack, error,
                      pendingRegen>>
     /\ (last'.op = "confirm" /\ last'.path = "resolved") =>
          /\ appState'.generation.from.kind = "spec"
          /\ appState'.generation.from.token = last'.token]_vars

\* C4: in every Stepping or Complete state the undo stack has exactly one
\* entry per selected token.
C4_UndoEntryPerToken ==
  (Stepping \/ Completed) => Len(undoStack) = Len(selectedTokens)

\* C5: in every reachable state the undo stack is at least as long as the
\* list of selected tokens.
C5_UndoStackNotShorter == Len(undoStack) >= Len(selectedTokens)

\* C6: accepting the chosen token and then undoing restores the generation,
\* position, selected tokens and built text held before the accept, and the
\* undo starts no provider call.
C6_UndoRestoresAccept ==
  [][(last.op = "accept" /\ last'.op = "undo") =>
       /\ appState' = last.from
       /\ selectedTokens' = last.sel
       /\ builtText' = last.built
       /\ calls' = calls /\ started' = started]_vars

\* C6 witness: an undo directly after an accept, at a position past the first
C6_Witness ==
  /\ last.op = "undo" /\ last.after = "accept"
  /\ Stepping /\ appState.position >= 1

\* C7: confirming a divergence with no speculation entry for the token
\* starts exactly one provider call, whose prompt is the built text stitched
\* with the token.
C7_FallbackStartsOneCall ==
  (last.op = "confirm" /\ last.path = "fallback") =>
    /\ Cardinality(last.started) = 1
    /\ \A call \in last.started :
         call.prompt = stitchToken(last.built, last.token)

\* C8: confirming a divergence whose speculation is still pending moves to
\* Loading and starts no provider call; the awaited call's success then ends
\* in Stepping on its result at position 0.
C8_PendingIsAwaited ==
  /\ (last.op = "confirm" /\ last.path = "pending") =>
       (appState.type = "loading" /\ last.started = {})
  /\ (last.op = "settle" /\ last.kind = "spec" /\ last.awaited /\ last.ok) =>
       /\ Stepping /\ appState.position = 0
       /\ appState.generation.id = generationIdCounter

\* C9: confirming a divergence whose speculation is resolved with a result
\* goes in one step to Stepping on that result at position 0 and starts no
\* provider call.
C9_ResolvedAdoptedDirectly ==
  (last.op = "confirm" /\ last.path = "resolved") =>
    /\ Stepping /\ appState.position = 0
    /\ appState.generation = last.result
    /\ last.started = {}

\* C9 witness: a resolved speculation with tokens was adopted
C9_Witness ==
  /\ last.op = "confirm" /\ last.path = "resolved"
  /\ Len(appState.generation.tokens) > 0 /\ Len(selectedTokens) >= 2

\* the user can select a token again (the wheel or the ghost dialog is shown)
CanRetry == WheelPage_wheelShown \/ Home_wheelShown \/ Diverging

\* the Undo button is shown and pops an entry
CanUndo ==
  /\ WheelPage_showUndo \/ Home_showUndo
  /\ Len(undoStack) > 0 /\ Len(selectedTokens) > 0

\* the last step was the failure of a confirmation of a divergence
ConfirmationFailed ==
  \/ last.op = "confirm" /\ last.path = "resolvedError"
  \/ last.op = "settle" /\ ~last.ok /\ last.awaited

\* C10: a provider failure changes neither selectedTokens nor removes undo
\* entries, and after a failed confirmation of a divergence the user can
\* retry the divergence or undo.
C10_FailureKeepsHistoryAndOptions ==
  [][/\ (last'.op = "settle" /\ ~last'.ok) =>
          (selectedTokens' = selectedTokens /\ undoStack' = undoStack)
     /\ ConfirmationFailed' =>
          /\ selectedTokens' = selectedTokens
          /\ Len(undoStack') >= Len(undoStack)
          /\ CanRetry' \/ CanUndo']_vars

\* the session rests in Idle: no generation is held
Resting == appState = Idle

\* the last step was the failure of a provider call issued by start (Home
\* handleStart / continue, WheelPage auto-trigger) or by a confirmation
IssuedCallFailed ==
  /\ last.op = "settle" /\ ~last.ok
  /\ last.kind \in {"start", "auto", "ghost", "fallback"}

\* C11: when a provider call issued by start or by a confirmation of a
\* divergence fails, the session is in Idle with the error stored and holds
\* no generation.
C11_FailedCallEndsIdle ==
  IssuedCallFailed => (Resting /\ error \in FailureMessages)

\* C12: confirming a divergence whose speculation is resolved with an error
\* moves the session to Idle with that error.
C12_ResolvedErrorEndsIdle ==
  [][(last'.op = "confirm" /\ last'.path = "resolvedError") =>
       (appState' = Idle /\ error' = pendingRegen[1].error)]_vars

\* C13: selecting the token that equals the generation's token at the
\* current position leaves exactly the state that accepting the current
\* token leaves (position or completion, selected tokens, response) and
\* starts no provider call.  The Home and Wheel pages have one handler for
\* both intents; the debug simulation has two.
C13_SelectChosenIsAccept ==
  [][(last'.op = "debugSelect" /\ last'.original) =>
       /\ debug' = DebugPage_accepted
       /\ calls' = calls /\ started' = started]_vars

\* C13 witness: the original token was selected past the first position
C13_Witness ==
  /\ last.op = "debugSelect" /\ last.original
  /\ debug.currentPosition >= 1 /\ Len(debug.selectedTokens) >= 2

\* the step handed a token other than the generation's token at the current
\* position to the page's token-select handler (Home.handleTokenSelect,
\* WheelPage.handleTokenSelect)
SelectedDivergent ==
  \/ last.op = "select"
  \/ last.op = "confirm" /\ page = "wheel"

\* C14: selecting a token other than the generation's token at the current
\* position only moves the session to Diverging at the same generation and
\* position: selected tokens, built text and undo stack are unchanged and
\* no provider call is started.
C14_SelectOnlyDiverges ==
  [][SelectedDivergent' =>
       /\ Stepping
       /\ appState' = Ghost(appState.generation, appState.position,
                            last'.token)
       /\ UNCHANGED <<selectedTokens, builtText, undoStack>>
       /\ calls' = calls /\ started' = started]_vars

\* C15: cancelling a divergence returns to Stepping at the same generation
\* and position, leaves selected tokens, built text and undo stack
\* unchanged and starts no provider call.
C15_CancelRestoresStepping ==
  [][last'.op = "cancel" =>
       /\ Diverging
       /\ appState' = Spinning(appState.generation, appState.position)
       /\ UNCHANGED <<selectedTokens, builtText, undoStack>>
       /\ calls' = calls /\ started' = started]_vars

\* C15 witness: a divergence was cancelled after tokens had been accepted
C15_Witness ==
  /\ last.op = "cancel" /\ Stepping /\ appState.position >= 1
  /\ Len(selectedTokens) >= 1 /\ Len(undoStack) >= 1

C17_EmptyResultCompletes ==
  /\ Stepping => appState.position < Len(appState.generation.tokens)
  /\ (last.op = "settle" /\ last.ok /\ last.kind \in {"start", "auto"}) =>
       \/ Stepping /\ appState.generation.tokens # <<>>
       \/ Completed /\ selectedTokens = <<>>

\* the last step was the failure of a speculative call whose divergence the
\* user has not confirmed
UnconfirmedSpeculationFailed ==
  last.op = "settle" /\ last.kind = "spec" /\ ~last.ok /\ ~last.awaited

\* C18: the failure of a speculative call that the user has not confirmed
\* changes neither the displayed error nor the session state; the error of
\* a failed speculation is shown only by a confirmation of the token the
\* speculation was started for.
C18_SpeculationFailureIsSilent ==
  [][/\ UnconfirmedSpeculationFailed' =>
          UNCHANGED <<error, appState, selectedTokens, builtText, undoStack>>
     /\ (last'.op = "confirm" /\ last'.path = "resolvedError") =>
          pendingRegen[1].token = last'.token]_vars

\* C18 witness: an unconfirmed speculation has failed while the wheel is
\* shown and no error is displayed
C18_Witness ==
  /\ UnconfirmedSpeculationFailed /\ Stepping /\ error = NoError
  /\ pendingRegen # <<>> /\ pendingRegen[1].error # NoError

\* C19: undo in Diverging discards the divergent token and then, when the
\* undo stack and the selected tokens are non-empty, pops the last entry:
\* it ends in Stepping at the entry's generation and position with the last
\* selected token removed.
C19_UndoWhileDiverging ==
  [][(last'.op = "undoGhost" /\ undoStack # <<>> /\ selectedTokens # <<>>) =>
       LET entry == undoStack[Len(undoStack)]
       IN /\ appState' = Spinning(entry.previousGeneration,
                                  entry.previousPosition)
          /\ undoStack' = Front(undoStack)
          /\ selectedTokens' = Front(selectedTokens)]_vars

\* the last step was an undo intent
UndoIssued == last.op \in {"undo", "undoGhost", "undoIgnored"}

\* C20: an intent issued in a state that does not support it performs no
\* transition: a token select outside Stepping, a confirm or cancel outside
\* Diverging (Home) and an undo outside Stepping and Diverging leave
\* appState, selected tokens, built text and undo stack unchanged.
C20_UnsupportedIntentIgnored ==
  [][/\ (UndoIssued' /\ ~(Stepping \/ Diverging)) =>
          UNCHANGED <<appState, selectedTokens, builtText, undoStack>>
     /\ (last'.op \in {"accept", "select", "notify"}) => Stepping
     /\ (last'.op = "confirm" /\ page = "wheel") => Stepping
     /\ (last'.op = "cancel" \/ (last'.op = "confirm" /\ page = "home")) =>
          Diverging]_vars

\* no session is shown: Home is idle, or the WheelPage was left for the
\* landing page
NoSession == Resting \/ (page = "wheel" /\ prompt = NoPrompt)

\* C21: reset yields Idle with no selected tokens, an empty undo stack, no
\* error and no speculation entry, and the start that follows begins with
\* no selected tokens, an empty undo stack and the built text equal to the
\* prompt.
C21_ResetClearsSession ==
  /\ last.op = "reset" =>
       /\ NoSession /\ selectedTokens = <<>> /\ undoStack = <<>>
       /\ error = NoError /\ pendingRegen = <<>>
  /\ (\/ last.op = "settle" /\ last.ok /\ last.kind = "start"
      \/ last.op = "mount") =>
       (selectedTokens = <<>> /\ undoStack = <<>> /\ builtText = prompt)

\* C21 witness: a session that had confirmed a divergence was reset
C21_Witness ==
  /\ last.op = "reset" /\ page = "home" /\ started.explicit >= 2
  /\ generationIdCounter >= 2

\* C22: for every prefix, token sequence and split point, stitching the
\* first part onto the prefix and the rest onto the result gives the text
\* of stitching the whole sequence onto the prefix, under both stitching
\* rules.
C22_StitchingIsIncremental ==
  \A k \in 0..Len(selectedTokens) :
    stitchTokens(SubSeq(selectedTokens, k + 1, Len(selectedTokens)),
                 stitchTokens(SubSeq(selectedTokens, 1, k), prompt))
      = builtText

\* C22 witness: three tokens stitched with smart spacing, a space inserted
C22_Witness ==
  /\ rule = "smart" /\ Len(selectedTokens) = 3
  /\ Len(builtText) > Len(prompt) + Len(join(selectedTokens))

\* the settlement of the speculative call c while the tracked entry is for
\* another token, or while no entry is tracked and no confirmation awaits c
UntrackedSettles(c) ==
  /\ last'.op = "settle" /\ c \in calls /\ c \notin calls'
  /\ \/ c.kind = "orphanSpec"
     \/ c.kind = "spec" /\ pendingRegen = <<>> /\ ~c.awaited
     \/ c.kind = "spec" /\ pendingRegen # <<>>
          /\ pendingRegen[1].token # c.token

\* C23: the settlement of a speculative call whose token does not match the
\* tracked entry, or that arrives when no entry is tracked, changes no
\* state: appState, selected tokens, built text, undo stack, error and the
\* tracked entry stay as they are.
C23_UntrackedSettlementIgnored ==
  [][\A c \in calls : UntrackedSettles(c) =>
       UNCHANGED <<appState, selectedTokens, builtText, undoStack, error,
                   pendingRegen>>]_vars


\* an entry is tracked for the token at the current position
EntryActiveFor(token) ==
  /\ pendingRegen # <<>>
  /\ pendingRegen[1].token = token
  /\ pendingRegen[1].newSelectedTokens = Append(selectedTokens, token)

\* C24: notifying a divergent candidate for which an entry is already active
\* at the same position starts no provider call: repeated notifications for
\* one token yield one call.
C24_NotifyStartsOneCallPerToken ==
  [][\A token \in Tokens :
       (last'.op = "notify" /\ last'.token = token /\ EntryActiveFor(token))
         => calls' \subseteq calls]_vars


\* C25: directly after a reset, an undo, or an accept of the model's token
\* that moves Stepping to the next position, no speculation entry is tracked.
C25_EntryDroppedOnMove ==
  (page = "wheel" /\ last.op \in {"reset", "undo", "accept"})
    => pendingRegen = <<>>


\* the results held by the session: the current generation and the
\* generations of the undo stack
HeldResults ==
  (IF appState.type \in {"spinning", "ghost"}
     THEN {appState.generation} ELSE {})
    \cup {undoStack[i].previousGeneration : i \in 1..Len(undoStack)}

\* C26: a speculation entry is consumed at most once: a confirmation leaves
\* no entry tracked, an entry only comes from a notification, with a call of
\* its own, and a confirmation never adopts a cached result that the session
\* already holds from an earlier confirmation.
C26_EntryConsumedOnce ==
  [][/\ (page = "wheel" /\ last'.op = "confirm") => pendingRegen' = <<>>
     /\ (/\ pendingRegen' # <<>>
         /\ pendingRegen = <<>> \/ pendingRegen'[1].call # pendingRegen[1].call)
          => /\ last'.op = "notify"
             /\ \A c \in calls : c.id # pendingRegen'[1].call
     /\ (last'.op = "confirm" /\ last'.path = "resolved")
          => \A g \in HeldResults : g.id # pendingRegen[1].result.id]_vars


\* the provider calls of the mounted session that have not settled
Outstanding == {c \in calls : c.kind \notin {"orphan", "orphanSpec"}}

\* C27: at most two provider calls are outstanding at once, at most one of
\* them speculative and at most one explicit.
C27_AtMostTwoCallsOutstanding ==
  /\ Cardinality(Outstanding) <= 2
  /\ Cardinality({c \in Outstanding : c.kind = "spec"}) <= 1
  /\ Cardinality({c \in Outstanding : c.kind # "spec"}) <= 1


\* C28: an undo directly after a successfully confirmed divergence restores
\* the generation and position held when the divergence was confirmed, with
\* the selected tokens and the built text as they were before the divergent
\* token was added, and starts no provider call.
C28_UndoRestoresDivergence ==
  [][(ConfirmationSucceeded /\ last'.op = "undo") =>
       /\ appState' = last.at
       /\ selectedTokens' = last.sel
       /\ builtText' = last.built
       /\ calls' = calls /\ started' = started]_vars


\* the results the session holds or caches: the current generation, the
\* generations of the undo stack and the result of the speculation entry
AllResults ==
  HeldResults
    \cup (IF pendingRegen # <<>> /\ pendingRegen[1].hasResult
           THEN {pendingRegen[1].result} ELSE {})

\* C29: every result gets an id strictly greater than the id of every result
\* created before it (the counter holds the greatest id given so far), so
\* two distinct results held by the session never share an id.
C29_ResultIdsIncrease ==
  [][/\ \A g \in AllResults' \ AllResults :
          /\ g.id > generationIdCounter
          /\ \A h \in AllResults : g.id > h.id
     /\ \A g \in AllResults' : g.id <= generationIdCounter'
     /\ \A g, h \in AllResults' : g.id = h.id => g = h]_vars

\* C29 witness: a speculative result was cached while an older call is still
\* in flight, next to a current generation and an undo stack with results
C29_Witness ==
  /\ page = "wheel" /\ Stepping /\ undoStack # <<>>
  /\ pendingRegen # <<>> /\ pendingRegen[1].hasResult
  /\ last.op = "settle" /\ last.ok /\ last.kind = "spec"
  /\ pendingRegen[1].result.id = generationIdCounter
  /\ \E c \in Outstanding : c.id < pendingRegen[1].call
  /\ Cardinality(AllResults) >= 3


\* the provider failures whose error response the client maps to message
FailuresShownAs(message) ==
  {failure \in ProviderFailures : errorMsg(POST_catch(failure)) = message}

\* C30: the error held after a provider failure tells a safety block, with
\* its reason, from a generic failure: exactly one kind of failure, with one
\* reason, produces the held error.
C30_ErrorTellsFailureKind ==
  (page \in {"home", "wheel"} /\ error # NoError)
    => Cardinality(FailuresShownAs(error)) = 1


\* <BuiltTextDisplay>: {prompt} followed by {selectedTokens.join('')}
BuiltTextDisplay_text == prompt \o join(selectedTokens)

\* C31: one stitching rule everywhere: in Stepping, Diverging and Complete
\* the text shown (prompt followed by the selected tokens) equals builtText,
\* and the prompt of a regeneration for a divergent token equals the prompt
\* stitched token by token with the tokens selected, the divergent one last.
C31_OneStitchingRule ==
  /\ (page \in {"home", "wheel"} /\ (Stepping \/ Diverging \/ Completed))
        => BuiltTextDisplay_text = builtText
  /\ \A c \in calls :
        c.kind \in {"debugRegen", "fallback", "ghost", "spec"}
          => c.prompt = stitchTokens(c.newSelectedTokens, prompt)


\* the request is invalid: the prompt is missing, empty, not a string, or
\* longer than 1000 characters
InvalidRequest(body, requestPrompt) ==
  \/ body # "object"
  \/ requestPrompt.type # "string"
  \/ requestPrompt.length = 0
  \/ requestPrompt.length > 1000

\* the model's answer is a safety block: a block reason on the prompt, or a
\* first candidate stopped for safety
SafetyBlocked(response) ==
  /\ ~response.thrown
  /\ \/ response.blockReason # Undefined
     \/ response.candidates > 0 /\ response.finishReason = "SAFETY"

\* the model's answer is a generation with tokens and logprobs
Generated(response) ==
  /\ ~response.thrown /\ response.blockReason = Undefined
  /\ response.candidates > 0 /\ response.finishReason # "SAFETY"
  /\ response.logprobsResult

\* C32: the endpoint never calls the model for an invalid request and
\* answers it with status 400 and an error; for a valid request a safety
\* block gives 400 with reason and userMessage, any other failure 500, and
\* only a successful generation gives tokens and logprobsByPosition.
C32_EndpointValidatesAndClassifies ==
  /\ \A c \in calls : page = "route" => ~InvalidRequest(c.body, c.prompt)
  /\ (page = "route" /\ last.op = "POST") =>
       IF InvalidRequest(last.body, last.prompt)
         THEN /\ last.response.status = 400
              /\ last.response.error # Undefined
              /\ last.gemini = <<>>
              /\ ~last.response.success
         ELSE /\ last.gemini # <<>>
              /\ \E c \in calls : c.request = started.explicit
              /\ SafetyBlocked(last.gemini[1]) =>
                    /\ last.response.status = 400
                    /\ last.response.reason # Undefined
                    /\ last.response.userMessage # Undefined
                    /\ ~last.response.success
              /\ (~SafetyBlocked(last.gemini[1]) /\ ~Generated(last.gemini[1]))
                    => (last.response.status = 500 /\ ~last.response.success)
              /\ Generated(last.gemini[1]) =>
                    /\ last.response.status = 200 /\ last.response.success
                    /\ last.response.tokens = last.gemini[1].tokens
                    /\ last.response.logprobsByPosition
                         = Len(last.gemini[1].tokens)



\* C33: in every Stepping state the generation is the result of a call whose
\* prompt, stitched with the generation's tokens before the position, is
\* builtText; a result adopted on confirmation was generated from the text
\* held at confirmation stitched with the divergent token.
C33_GenerationMatchesBuiltText ==
  /\ (page \in {"home", "wheel"} /\ Stepping) =>
       stitchTokens(SubSeq(appState.generation.tokens, 1, appState.position),
                    appState.generation.from.prompt) = builtText
  /\ (ConfirmationSucceeded /\ Stepping) =>
       appState.generation.from.prompt = stitchToken(last.built, last.token)


\* C34: a divergence confirmed while no token is selected yet issues no
\* provider call with the original prompt, and the confirmation ends in
\* Stepping with the divergent token as the only selected token, on the
\* generation made for the prompt stitched with it.
C34_InitialGenerationRequestedOnce ==
  /\ (page = "wheel" /\ last.op = "confirm" /\ last.sel = <<>>) =>
       \A call \in last.started :
         call.kind # "auto" /\ call.prompt # prompt
  /\ (page = "wheel" /\ ConfirmationSucceeded /\ last.sel = <<>>) =>
       /\ Stepping
       /\ selectedTokens = <<last.token>>
       /\ appState.generation.from.prompt = stitchToken(prompt, last.token)


\* the settlement of c sets appState: the continuation of generate, or of
\* the promise a confirmation awaits
MovesOutOfLoading(c) ==
  \/ c.kind \in {"auto", "fallback", "start", "ghost"}
  \/ c.kind = "spec" /\ c.awaited

\* C35: a session is in Loading only while a provider call whose settlement
\* moves it out of Loading is outstanding: once every call has settled the
\* session is Idle, Stepping, Diverging or Complete.
C35_LoadingHasOutstandingCall ==
  (page \in {"home", "wheel"} /\ prompt # NoPrompt
     /\ appState.type = "loading")
    => \E c \in Outstanding : MovesOutOfLoading(c)


\* C36: every undo restores the generation and position recorded for the
\* step it takes back and starts no provider call, leaves as many undo
\* entries as selected tokens, and the undo that empties the undo stack ends
\* in Stepping at position 0 of a generation made for the original prompt,
\* with no selected token and builtText equal to the prompt.
C36_UndoingEveryCommit ==
  [][last'.op = "undo" =>
       /\ appState' = Spinning(undoStack[Len(undoStack)].previousGeneration,
                               undoStack[Len(undoStack)].previousPosition)
       /\ undoStack' = Front(undoStack)
       /\ calls' = calls /\ started' = started
       /\ Len(undoStack') = Len(selectedTokens')
       /\ undoStack' = <<>> =>
            /\ appState'.position = 0
            /\ appState'.generation.from.prompt = prompt
            /\ selectedTokens' = <<>>
            /\ builtText' = prompt]_vars


\* C37: in Stepping the Undo button is shown exactly when an undo pops an
\* entry and removes a selected token: never shown while an undo would
\* change nothing.
C37_UndoShownIffEffective ==
  (page \in {"home", "wheel"} /\ Stepping) =>
    ((WheelPage_showUndo \/ Home_showUndo)
       <=> (Len(undoStack) > 0 /\ Len(selectedTokens) > 0))

====
